---- MODULE Spec2Model ----
(***************************************************************************)
(* Model of eccc.py: two provider clients (search_amazon_products,         *)
(* search_google_shopping) with their fallback lists, the four-node        *)
(* LangGraph pipeline extract_product -> search_amazon -> search_google -> *)
(* rank_products -> END, and the Streamlit trigger run_product_search.     *)
(*                                                                         *)
(* JSON values are tagged records (JStr, JNum, JNull); a JSON object is a  *)
(* TLA+ record whose DOMAIN is the set of keys present.  Ratings (Python   *)
(* floats) are integers in tenths: 4.3 is 43.                              *)
(***************************************************************************)
EXTENDS Integers, Sequences, FiniteSets, TLC

VARIABLES
    pc,               \* position of the script: "idle" or the graph node about to run, or "done"
    state,            \* the ProductSearchState dict threaded through the graph
    user_input_text,  \* content of the st.text_input box at the last click
    warning,          \* st.warning shown by the last script run
    markdown,         \* what st.markdown rendered in the last script run (<<>> = nothing)
    log,              \* lines printed on the console by the current script run
    requests,         \* number of requests.get calls issued by the current script run
    invocations,      \* number of graph.invoke calls made by the current script run
    trace,            \* nodes executed by the current graph.invoke, in order
    amazonResp,       \* outcome of the last marketplace request
    googleResp        \* outcome of the last shopping request

vars == <<pc, state, user_input_text, warning, markdown, log, requests,
          invocations, trace, amazonResp, googleResp>>

----------------------------------------------------------------------------
(* Bounds *)

MaxEntries == 1    \* free-form response bodies have at most this many entries
MaxLong == 6       \* longest regular response body (must exceed the [:5] slice)
MaxLen == 2        \* longest provider list fed directly to rank_products

----------------------------------------------------------------------------
(* JSON values *)

JStr(s) == [t |-> "str", s |-> s]
JNum(n) == [t |-> "num", n |-> n]
JNull == [t |-> "null"]

\* dict.get(key, default)
Get(d, k, default) == IF k \in DOMAIN d THEN d[k] ELSE default

\* Python truthiness of a JSON scalar: None, "" and 0 are falsy
Truthy(v) ==
    CASE v.t = "null" -> FALSE
      [] v.t = "str" -> v.s # ""
      [] v.t = "num" -> v.n # 0

\* a or b
Or(a, b) == IF Truthy(a) THEN a ELSE b

\* a JSON value that is not an object: calling .get on it raises AttributeError
NonDict == [nondict |-> "junk"]
IsDict(p) == "nondict" \notin DOMAIN p

\* the strings float() accepts, with their value in tenths
FloatLiterals == [s \in {"0", "4", "4.5", "3.9"} |->
                    CASE s = "0" -> 0 [] s = "4" -> 40 [] s = "4.5" -> 45 [] s = "3.9" -> 39]

\* float(v): a value, or the exception it raises
Float(v) ==
    CASE v.t = "num" -> [ok |-> TRUE, val |-> v.n]
      [] v.t = "str" -> IF v.s \in DOMAIN FloatLiterals
                          THEN [ok |-> TRUE, val |-> FloatLiterals[v.s]]
                          ELSE [ok |-> FALSE, exc |-> "ValueError"]
      [] v.t = "null" -> [ok |-> FALSE, exc |-> "TypeError"]

Min(a, b) == IF a < b THEN a ELSE b

\* the slice forgotten
TakeAll(xs, n) == xs

\* xs[:n]
Take(xs, n) == SubSeq(xs, 1, Min(n, Len(xs)))

Reverse(xs) == [i \in 1..Len(xs) |-> xs[Len(xs) + 1 - i]]

\* the element of a singleton set; {F(v) : v \in {e}} evaluates e once and names its value v
The(S) == CHOOSE x \in S : TRUE

----------------------------------------------------------------------------
(* Outcomes of one outbound request *)

\* a response body that response.json() cannot decode
Undecodable == [undecodable |-> TRUE]
Decodes(b) == "undecodable" \notin DOMAIN b

\* {} as the default of data.get("data", {})
EmptyDict == [other |-> JNull]

Without(d, k) == [x \in DOMAIN d \ {k} |-> d[x]]

SeqsUpTo(S, n) == UNION {[1..k -> S] : k \in 0..n}

AmazonFull(title, r) ==
    [product_title |-> JStr(title), product_price |-> JStr("₹999"),
     product_star_rating |-> r, product_url |-> JStr("https://amazon.in/p")]

RawRatings == {JStr("4.5"), JStr("4"), JNum(39), JStr(""), JNull, JStr("abc")}

AmazonEntries ==
    {AmazonFull("T1", r) : r \in RawRatings}
      \cup {Without(AmazonFull("T1", JStr("4.5")), k) :
                k \in {"product_star_rating", "product_price", "product_url", "product_title"}}
      \cup {[AmazonFull("T1", JStr("4.5")) EXCEPT !.product_url = JStr("")], NonDict}

\* a regular page of n results, titled by position
AmazonPage(n) ==
    [i \in 1..n |-> AmazonFull("A" \o ToString(i), IF i % 2 = 1 THEN JStr("4") ELSE JStr("4.5"))]

AmazonBodies ==
    {Undecodable, [status |-> JStr("OK")], [data |-> NonDict],
     [data |-> [request_id |-> JStr("r1")]]}
      \cup {[data |-> [products |-> es]] : es \in SeqsUpTo(AmazonEntries, MaxEntries)}
      \cup {[data |-> [products |-> AmazonPage(n)]] : n \in 2..MaxLong}

GoogleFull(title, r) ==
    [title |-> JStr(title), price |-> JStr("₹899"), rating |-> r,
     link |-> JStr("https://google.com/p")]

GoogleRawRatings == {JNum(42), JNum(0), JStr("4.5"), JNull, JStr("abc")}

GoogleEntries ==
    {GoogleFull("G1", r) : r \in GoogleRawRatings}
      \cup {Without(GoogleFull("G1", JNum(42)), k) : k \in {"rating", "price", "link", "title"}}
      \cup {NonDict}

GooglePage(n) ==
    [i \in 1..n |-> GoogleFull("G" \o ToString(i), IF i % 2 = 1 THEN JNum(45) ELSE JNum(40))]

GoogleBodies ==
    {Undecodable, [search_metadata |-> JStr("Success")]}
      \cup {[shopping_results |-> es] : es \in SeqsUpTo(GoogleEntries, MaxEntries)}
      \cup {[shopping_results |-> GooglePage(n)] : n \in 2..MaxLong}

\* what requests.get(..., timeout=10) can produce: an exception, or a response
Responses(bodies) ==
    {[kind |-> "network_error"], [kind |-> "timeout"]}
      \cup {[kind |-> "http", status |-> 500, body |-> Undecodable],
            [kind |-> "http", status |-> 404, body |-> [message |-> JStr("not found")]]}
      \cup {[kind |-> "http", status |-> 200, body |-> b] : b \in bodies}

NoResponse == [kind |-> "none"]

----------------------------------------------------------------------------
(* Provider clients *)

Return(v) == [ok |-> TRUE, val |-> v]
Raise(e) == [ok |-> FALSE, exc |-> e]

\* the first exception raised while a loop builds rs, or the list built
Collect(rs) ==
    IF \E i \in 1..Len(rs) : ~rs[i].ok
      THEN rs[CHOOSE i \in 1..Len(rs) : ~rs[i].ok /\ \A j \in 1..(i-1) : rs[j].ok]
      ELSE Return([i \in 1..Len(rs) |-> rs[i].val])

fallback_amazon ==
    << [title |-> JStr("Fallback Product A"), price |-> JStr("₹50,000"), rating |-> 43,
        link |-> JStr("https://amazon.in/fallback-a")],
       [title |-> JStr("Fallback Product B"), price |-> JStr("₹45,000"), rating |-> 41,
        link |-> JStr("https://amazon.in/fallback-b")] >>

fallback_google ==
    << [title |-> JStr("Fallback Google Product A"), price |-> JStr("₹48,000"), rating |-> 40,
        link |-> JStr("https://google.com/fallback-a")],
       [title |-> JStr("Fallback Google Product B"), price |-> JStr("₹52,000"), rating |-> 42,
        link |-> JStr("https://google.com/fallback-b")] >>

\* the dict appended for one marketplace entry p
AmazonRecord(p) ==
    IF ~IsDict(p) THEN Raise("AttributeError")
    ELSE LET f == Float(Or(Get(p, "product_star_rating", JStr("0")), JNum(0)))
         IN  IF ~f.ok THEN f
             ELSE Return([title |-> Get(p, "product_title", JNull),
                          price |-> Get(p, "product_price", JNull),
                          rating |-> f.val,
                          link |-> Or(Get(p, "product_url", JNull), JStr("Link not available"))])

\* the dict appended for one shopping entry item
GoogleRecord(item) ==
    IF ~IsDict(item) THEN Raise("AttributeError")
    ELSE LET f == Float(Get(item, "rating", JNum(0)))
         IN  IF ~f.ok THEN f
             ELSE Return([title |-> Get(item, "title", JNull),
                          price |-> Get(item, "price", JStr("N/A")),
                          rating |-> f.val,
                          link |-> Get(item, "link", JNull)])

\* "return products" without the fallback substitution
NoFallback(products, fallback) == products

\* products if products else fallback
OrFallback(products, fallback) == IF products # <<>> THEN products ELSE fallback

\* number of entries the marketplace loop keeps
MaxResults == 5

\* the try block of search_amazon_products
AmazonTry(resp) ==
    IF resp.kind = "network_error" THEN Raise("ConnectionError")
    ELSE IF resp.kind = "timeout" THEN Raise("Timeout")
    ELSE IF resp.status = 200
      THEN IF ~Decodes(resp.body) THEN Raise("JSONDecodeError")
           ELSE LET d == Get(resp.body, "data", EmptyDict)
                IN  IF ~IsDict(d) THEN Raise("AttributeError")
                    ELSE LET ps == Take(Get(d, "products", <<>>), MaxResults)
                             r == Collect([i \in 1..Len(ps) |-> AmazonRecord(ps[i])])
                         IN  IF r.ok THEN Return(OrFallback(r.val, fallback_amazon)) ELSE r
      ELSE Return(fallback_amazon)

\* the try block of search_google_shopping
GoogleTry(resp) ==
    IF resp.kind = "network_error" THEN Raise("ConnectionError")
    ELSE IF resp.kind = "timeout" THEN Raise("Timeout")
    ELSE IF resp.status = 200
      THEN IF ~Decodes(resp.body) THEN Raise("JSONDecodeError")
           ELSE LET items == Take(Get(resp.body, "shopping_results", <<>>), MaxResults)
                    r == Collect([i \in 1..Len(items) |-> GoogleRecord(items[i])])
                IN  IF r.ok THEN Return(OrFallback(r.val, fallback_google)) ELSE r
      ELSE Return(OrFallback(<<>>, fallback_google))

\* the exception classes the clients' code can raise; all derive from Exception
ExceptionClasses ==
    {"ConnectionError", "Timeout", "JSONDecodeError", "AttributeError", "ValueError", "TypeError"}

\* "except requests.RequestException as e"
CaughtRequestOnly(e) == e \in {"ConnectionError", "Timeout"}

\* except Exception as e
Caught(e) == e \in ExceptionClasses

\* the except clause without its print
ClientSilent(r, tag, fallback) ==
    IF r.ok THEN [ret |-> r.val, out |-> <<>>, raised |-> FALSE]
    ELSE [ret |-> fallback, out |-> <<>>, raised |-> FALSE]

\* a client call: the list returned, the lines printed, whether it raised to its caller
Client(r, tag, fallback) ==
    IF r.ok THEN [ret |-> r.val, out |-> <<>>, raised |-> FALSE]
    ELSE IF Caught(r.exc)
      THEN [ret |-> fallback, out |-> <<[tag |-> tag, e |-> r.exc]>>, raised |-> FALSE]
      ELSE [ret |-> <<>>, out |-> <<>>, raised |-> TRUE]

search_amazon_products(resp) == Client(AmazonTry(resp), "[Amazon Error]", fallback_amazon)

search_google_shopping(resp) == Client(GoogleTry(resp), "[Google Shopping Error]", fallback_google)

----------------------------------------------------------------------------
(* Graph nodes *)

\* a node's returned dict merged into the graph state (last value wins per key)
Update(st, partial) ==
    [k \in DOMAIN st \cup DOMAIN partial |-> IF k \in DOMAIN partial THEN partial[k] ELSE st[k]]

extract_product(st) == [user_input |-> st.user_input]

search_amazon(st, ret) == [amazon_products |-> ret]

\* the shopping node also writing the marketplace field
search_google_clobber(st, ret) == [google_products |-> ret, amazon_products |-> ret]

search_google(st, ret) == [google_products |-> ret]

\* state.get(k) or []
ListOrEmpty(st, k) == IF k \in DOMAIN st /\ st[k] # <<>> THEN st[k] ELSE <<>>

\* key=lambda x: x.get("rating", 0.0)
RatingKey(x) == Get(x, "rating", 0)

\* x placed after every element of the ascending list xs whose key is not greater
Insert(xs, x) ==
    LET n == Cardinality({i \in 1..Len(xs) : ~(RatingKey(x) < RatingKey(xs[i]))})
    IN  SubSeq(xs, 1, n) \o <<x>> \o SubSeq(xs, n + 1, Len(xs))

RECURSIVE SortPrefix(_, _)
\* the first n elements of xs, stably sorted ascending by RatingKey with < only
SortPrefix(xs, n) ==
    IF n = 0 THEN <<>>
    ELSE The({Insert(s, x) : s \in {SortPrefix(xs, n - 1)}, x \in {xs[n]}})

SortAscending(xs) == SortPrefix(xs, Len(xs))

\* ascending sort reversed afterwards: equal ratings come out in reverse order
SortedReverseUnstable(xs) == The({Reverse(s) : s \in {SortAscending(xs)}})

\* sorted(xs, key=..., reverse=True): reverse, stable ascending sort, reverse
SortedReverse(xs) == The({Reverse(s) : s \in {SortAscending(Reverse(xs))}})

\* length of the "top" slice
TopN == 3

ItemLines(ps, src) ==
    [i \in 1..Len(ps) |-> [line |-> "item", i |-> i, title |-> ps[i].title, price |-> ps[i].price,
                           rating |-> ps[i].rating, link |-> ps[i].link, src |-> src]]

Header(text) == [line |-> text]

\* the report: "\n".join(summary_lines), kept as the sequence of its lines
Summary(query, amazon, google, ranked) ==
    <<[line |-> "Extracted product name", q |-> query], Header("")>>
      \o <<Header("Amazon Products")>> \o ItemLines(amazon, "[Amazon]")
      \o <<Header("Google Products")>> \o ItemLines(google, "[Google]")
      \o <<Header("Top 3 Products Overall")>> \o ItemLines(ranked, "")

rank_products(st) ==
    LET amazon == ListOrEmpty(st, "amazon_products")
        google == ListOrEmpty(st, "google_products")
        all_products == amazon \o google
    IN  The({ [ranked_products |-> ranked,
               output_summary |-> Summary(st.user_input, amazon, google, ranked)] :
                ranked \in {Take(SortedReverse(all_products), TopN)} })

\* builder.add_edge / set_entry_point; END is "done"
EntryPoint == "extract_product"

\* the edge out of search_amazon wired past search_google
EdgeSkip ==
    [extract_product |-> "search_amazon", search_amazon |-> "rank_products",
     search_google |-> "rank_products", rank_products |-> "done"]

Edge ==
    [extract_product |-> "search_amazon", search_amazon |-> "search_google",
     search_google |-> "rank_products", rank_products |-> "done"]

----------------------------------------------------------------------------
(* The session *)

Queries == {"", "iPhone 14"}

\* no graph state exists outside graph.invoke
NoState == [none |-> JNull]

\* the emptiness test dropped
AlwaysInvoke(q) == TRUE

\* if user_input_text:
NonEmpty(q) == q # ""

Init ==
    /\ pc = "idle"
    /\ state = NoState
    /\ user_input_text = ""
    /\ warning = FALSE
    /\ markdown = <<>>
    /\ log = <<>>
    /\ requests = 0
    /\ invocations = 0
    /\ trace = <<>>
    /\ amazonResp = NoResponse
    /\ googleResp = NoResponse

\* one script run of run_product_search up to the call of graph.invoke: the Search
\* button fires; Streamlit re-executes the script, so the page and the run's counters start afresh
Click ==
    /\ pc = "idle"
    /\ \E q \in Queries :
         /\ user_input_text' = q
         /\ markdown' = <<>>
         /\ trace' = <<>>
         /\ amazonResp' = NoResponse
         /\ googleResp' = NoResponse
         /\ log' = <<>>
         /\ requests' = 0
         /\ IF NonEmpty(q)
              THEN /\ state' = [user_input |-> q]
                   /\ pc' = EntryPoint
                   /\ invocations' = 1
                   /\ warning' = FALSE
              ELSE /\ warning' = TRUE
                   /\ invocations' = 0
                   /\ UNCHANGED <<state, pc>>

Extract ==
    /\ pc = "extract_product"
    /\ state' = Update(state, extract_product(state))
    /\ pc' = Edge["extract_product"]
    /\ trace' = Append(trace, "extract_product")
    /\ UNCHANGED <<user_input_text, warning, markdown, log, requests, invocations,
                   amazonResp, googleResp>>

SearchAmazon ==
    /\ pc = "search_amazon"
    /\ \E resp \in Responses(AmazonBodies) :
         LET c == search_amazon_products(resp)
         IN  /\ amazonResp' = resp
             /\ requests' = requests + 1
             /\ log' = log \o c.out
             /\ trace' = Append(trace, "search_amazon")
             /\ IF c.raised
                  THEN pc' = "crashed" /\ UNCHANGED state
                  ELSE /\ state' = Update(state, search_amazon(state, c.ret))
                       /\ pc' = Edge["search_amazon"]
    /\ UNCHANGED <<user_input_text, warning, markdown, invocations, googleResp>>

SearchGoogle ==
    /\ pc = "search_google"
    /\ \E resp \in Responses(GoogleBodies) :
         LET c == search_google_shopping(resp)
         IN  /\ googleResp' = resp
             /\ requests' = requests + 1
             /\ log' = log \o c.out
             /\ trace' = Append(trace, "search_google")
             /\ IF c.raised
                  THEN pc' = "crashed" /\ UNCHANGED state
                  ELSE /\ state' = Update(state, search_google(state, c.ret))
                       /\ pc' = Edge["search_google"]
    /\ UNCHANGED <<user_input_text, warning, markdown, invocations, amazonResp>>

Rank ==
    /\ pc = "rank_products"
    /\ \E partial \in {rank_products(state)} : state' = Update(state, partial)
    /\ pc' = Edge["rank_products"]
    /\ trace' = Append(trace, "rank_products")
    /\ UNCHANGED <<user_input_text, warning, markdown, log, requests, invocations,
                   amazonResp, googleResp>>

\* run_product_search after graph.invoke returned: the summary is rendered
Render ==
    /\ pc = "done"
    /\ markdown' = state.output_summary
    /\ state' = NoState
    /\ pc' = "idle"
    /\ UNCHANGED <<user_input_text, warning, log, requests, invocations, trace,
                   amazonResp, googleResp>>

Next == Click \/ Extract \/ SearchAmazon \/ SearchGoogle \/ Rank \/ Render

Spec == Init /\ [][Next]_vars

\* the script runs to completion once started: every enabled step is eventually taken
FairSpec == Spec /\ WF_vars(Extract \/ SearchAmazon \/ SearchGoogle \/ Rank \/ Render)

----------------------------------------------------------------------------
(* rank_products on arbitrary provider lists *)

RankRatings == {0, 40, 45}

RankProducts ==
    {[title |-> JStr(t), price |-> JStr("₹1"), rating |-> r, link |-> JStr("L")] :
        t \in {"x", "y"}, r \in RankRatings}

RankLists == SeqsUpTo(RankProducts, MaxLen)

RankStates ==
    LET base == [user_input |-> "iPhone 14"]
    IN  {base}
          \cup {Update(base, [amazon_products |-> a]) : a \in RankLists}
          \cup {Update(base, [google_products |-> g]) : g \in RankLists}
          \cup {Update(base, [amazon_products |-> a, google_products |-> g]) :
                    a \in RankLists, g \in RankLists}

RankInit ==
    /\ pc = "rank_products"
    /\ state \in RankStates
    /\ user_input_text = "iPhone 14"
    /\ warning = FALSE
    /\ markdown = <<>>
    /\ log = <<>>
    /\ requests = 2
    /\ invocations = 1
    /\ trace = <<"extract_product", "search_amazon", "search_google">>
    /\ amazonResp = NoResponse
    /\ googleResp = NoResponse

RankNext == Rank

RankSpec == RankInit /\ [][RankNext]_vars

----------------------------------------------------------------------------
(* Vocabulary of the properties *)

Http200(resp) == resp.kind = "http" /\ resp.status = 200 /\ Decodes(resp.body)

\* the result entries a response carries (none unless it is a decodable 200)
AmazonEntriesOf(resp) ==
    IF /\ Http200(resp)
       /\ "data" \in DOMAIN resp.body
       /\ IsDict(resp.body.data)
       /\ "products" \in DOMAIN resp.body.data
      THEN resp.body.data.products ELSE <<>>

GoogleEntriesOf(resp) ==
    IF Http200(resp) /\ "shopping_results" \in DOMAIN resp.body
      THEN resp.body.shopping_results ELSE <<>>

Has(k) == k \in DOMAIN state

Order == <<"extract_product", "search_amazon", "search_google", "rank_products">>

Designated ==
    [extract_product |-> {"user_input"}, search_amazon |-> {"amazon_products"},
     search_google |-> {"google_products"},
     rank_products |-> {"ranked_products", "output_summary"}]

\* the request failed before any JSON document was obtained
TransportFailure(resp) == resp.kind \in {"network_error", "timeout"}
DecodeFailure(resp) == resp.kind = "http" /\ resp.status = 200 /\ ~Decodes(resp.body)
Non200(resp) == resp.kind = "http" /\ resp.status # 200

\* a rating field float() accepts
Parseable(v) == v.t = "num" \/ (v.t = "str" /\ v.s \in DOMAIN FloatLiterals)
ParsedValue(v) == IF v.t = "num" THEN v.n ELSE FloatLiterals[v.s]

----------------------------------------------------------------------------
(* C1: whatever the outcome of the request, the list a provider client     *)
(* returns is never empty: it has between 1 and 5 items, and it is exactly *)
(* the provider's 2-entry fallback list unless the response was a          *)
(* decodable 200 that carried entries.                                     *)
C1_NeverEmpty ==
    /\ (Has("amazon_products") /\ amazonResp.kind # "none") =>
          /\ Len(state.amazon_products) \in 1..5
          /\ AmazonEntriesOf(amazonResp) = <<>> =>
                state.amazon_products = fallback_amazon /\ Len(fallback_amazon) = 2
    /\ (Has("google_products") /\ googleResp.kind # "none") =>
          /\ Len(state.google_products) \in 1..5
          /\ GoogleEntriesOf(googleResp) = <<>> =>
                state.google_products = fallback_google /\ Len(fallback_google) = 2

\* a 6-entry page cut to 5 records, next to a timed-out request answered by the fallback
C1_Witness ==
    /\ pc = "rank_products"
    /\ Len(AmazonEntriesOf(amazonResp)) = 6
    /\ Len(state.amazon_products) = 5
    /\ googleResp.kind = "timeout"
    /\ state.google_products = fallback_google

(* C2: for a 200 response of the marketplace whose first five entries are  *)
(* objects, every one of them yields a record, and the record's rating is  *)
(* the star-rating field parsed as a float, 0.0 when the field is missing  *)
(* or is not parseable.                                                    *)
C2_InvalidRatingDefaults ==
    LET es == AmazonEntriesOf(amazonResp)
        n == Min(5, Len(es))
        Expected(p) ==
            IF "product_star_rating" \in DOMAIN p /\ Parseable(p.product_star_rating)
              THEN ParsedValue(p.product_star_rating) ELSE 0
    IN  (/\ Has("amazon_products")
         /\ amazonResp.kind # "none"
         /\ n > 0
         /\ \A i \in 1..n : IsDict(es[i])) =>
            /\ Len(state.amazon_products) = n
            /\ \A i \in 1..n : state.amazon_products[i].rating = Expected(es[i])

(* C3: for a 200 response of either provider whose entries are objects     *)
(* with a valid or missing rating, every entry yields a record, and a      *)
(* missing field is defaulted: rating to 0.0, price to "N/A", link to      *)
(* "Link not available".                                                   *)
C3_MissingFieldsDefaulted ==
    LET Kept(es, ps, rating, price, link) ==
            LET n == Min(5, Len(es))
            IN  (/\ n > 0
                 /\ \A i \in 1..n : IsDict(es[i])
                 /\ \A i \in 1..n : rating \in DOMAIN es[i] => Parseable(es[i][rating])) =>
                    /\ Len(ps) = n
                    /\ \A i \in 1..n :
                         /\ rating \notin DOMAIN es[i] => ps[i].rating = 0
                         /\ price \notin DOMAIN es[i] => ps[i].price = JStr("N/A")
                         /\ link \notin DOMAIN es[i] => ps[i].link = JStr("Link not available")
    IN  /\ (Has("amazon_products") /\ amazonResp.kind # "none") =>
              Kept(AmazonEntriesOf(amazonResp), state.amazon_products,
                   "product_star_rating", "product_price", "product_url")
        /\ (Has("google_products") /\ googleResp.kind # "none") =>
              Kept(GoogleEntriesOf(googleResp), state.google_products,
                   "rating", "price", "link")

(* C4: the nodes of one invocation run in the order extract_product,       *)
(* search_amazon, search_google, rank_products, done, each exactly once;   *)
(* rank_products starts only when both product lists have been written.    *)
C4_StageOrder ==
    /\ pc # "idle" =>
          /\ Len(trace) <= 4
          /\ trace = SubSeq(Order, 1, Len(trace))
          /\ pc = IF Len(trace) = 4 THEN "done" ELSE Order[Len(trace) + 1]
    /\ pc = "rank_products" => Has("amazon_products") /\ Has("google_products")

C4_Witness == pc = "done" /\ trace = Order

(* C5: a node adds exactly its designated field(s) to the state and leaves *)
(* every field already present unchanged; user_input keeps the value given *)
(* at invocation.                                                          *)
C5_Frame ==
    [][ /\ pc \in DOMAIN Designated =>
              /\ DOMAIN state' = DOMAIN state \cup Designated[pc]
              /\ \A k \in DOMAIN state : state'[k] = state[k]
        /\ pc' \in DOMAIN Designated \cup {"done"} => state'.user_input = user_input_text'
      ]_vars

C5_Witness ==
    /\ pc = "done"
    /\ DOMAIN state = {"user_input", "amazon_products", "google_products",
                       "ranked_products", "output_summary"}
    /\ state.user_input = "iPhone 14"
    /\ state.amazon_products # fallback_amazon

(* C6: ranked_products is the first min(3, n) elements of the stable       *)
(* descending-by-rating order of amazon followed by google (a missing list *)
(* counts as empty): the element at concatenation index i lands at the     *)
(* position counting the elements rated higher plus the equally rated      *)
(* ones before it, and ratings never increase along the result.            *)
C6_StableTop3 ==
    pc = "done" =>
        LET a == IF Has("amazon_products") THEN state.amazon_products ELSE <<>>
            g == IF Has("google_products") THEN state.google_products ELSE <<>>
            all == a \o g
            n == Len(all)
            r == state.ranked_products
            Pos(i) == 1 + Cardinality({j \in 1..n :
                            \/ all[j].rating > all[i].rating
                            \/ all[j].rating = all[i].rating /\ j < i})
        IN  /\ Len(r) = (IF n < 3 THEN n ELSE 3)
            /\ \A i \in 1..n : Pos(i) <= Len(r) => r[Pos(i)] = all[i]
            /\ \A k \in 1..Len(r) : \E i \in 1..n : r[k] = all[i]
            /\ \A k \in 1..(Len(r) - 1) : r[k].rating >= r[k + 1].rating
            /\ \A i \in 1..n : n > 0 => r[1].rating >= all[i].rating

\* four products, a google product first, then two equally rated distinct products
C6_Witness ==
    /\ pc = "done"
    /\ Has("amazon_products") /\ Has("google_products")
    /\ Len(state.amazon_products) = 2 /\ Len(state.google_products) = 2
    /\ state.ranked_products[1] = state.google_products[1]
    /\ state.ranked_products[1].rating > state.ranked_products[2].rating
    /\ state.ranked_products[2].rating = state.ranked_products[3].rating
    /\ state.ranked_products[2] = state.amazon_products[2]
    /\ state.ranked_products[3] = state.google_products[2]
    /\ state.ranked_products[2] # state.ranked_products[3]

(* C7: an invocation that has started (the query is non-empty) eventually  *)
(* reaches done with output_summary populated, whatever the two requests   *)
(* produce.                                                                *)
C7_ReachesDone == (pc = "extract_product") ~> (pc = "done" /\ Has("output_summary"))

\* done after a timed-out marketplace request and a shopping response with a bad rating
C7_Witness ==
    /\ pc = "done"
    /\ Has("output_summary")
    /\ amazonResp.kind = "timeout"
    /\ state.amazon_products = fallback_amazon
    /\ \E i \in 1..Len(GoogleEntriesOf(googleResp)) :
          /\ IsDict(GoogleEntriesOf(googleResp)[i])
          /\ "rating" \in DOMAIN GoogleEntriesOf(googleResp)[i]
          /\ ~Parseable(GoogleEntriesOf(googleResp)[i].rating)

(* C8 as stated: a client that returns its fallback list because of a      *)
(* non-200 status, a network error, a parse error or a timeout has written *)
(* a diagnostic line; a call that returns mapped records writes nothing.   *)
C8_LogsEveryFailure ==
    [][ /\ pc = "search_amazon" =>
              /\ (TransportFailure(amazonResp') \/ DecodeFailure(amazonResp')
                    \/ Non200(amazonResp')) => Len(log') = Len(log) + 1
              /\ state'.amazon_products # fallback_amazon => log' = log
        /\ pc = "search_google" =>
              /\ (TransportFailure(googleResp') \/ DecodeFailure(googleResp')
                    \/ Non200(googleResp')) => Len(log') = Len(log) + 1
              /\ state'.google_products # fallback_google => log' = log
      ]_vars

(* C8 amended: a client writes one diagnostic line, tagged with its        *)
(* provider, when the request fails with a network error or a timeout or   *)
(* the 200 body cannot be decoded, and returns its fallback list; for a     *)
(* non-200 status it returns the fallback list and writes nothing; a call   *)
(* that returns mapped records writes nothing.                             *)
C8_LogsExceptionsOnly ==
    [][ /\ pc = "search_amazon" =>
              /\ (TransportFailure(amazonResp') \/ DecodeFailure(amazonResp')) =>
                    /\ Len(log') = Len(log) + 1
                    /\ SubSeq(log', 1, Len(log)) = log
                    /\ log'[Len(log')].tag = "[Amazon Error]"
                    /\ state'.amazon_products = fallback_amazon
              /\ Non200(amazonResp') => log' = log /\ state'.amazon_products = fallback_amazon
              /\ state'.amazon_products # fallback_amazon => log' = log
        /\ pc = "search_google" =>
              /\ (TransportFailure(googleResp') \/ DecodeFailure(googleResp')) =>
                    /\ Len(log') = Len(log) + 1
                    /\ SubSeq(log', 1, Len(log)) = log
                    /\ log'[Len(log')].tag = "[Google Shopping Error]"
                    /\ state'.google_products = fallback_google
              /\ Non200(googleResp') => log' = log /\ state'.google_products = fallback_google
              /\ state'.google_products # fallback_google => log' = log
      ]_vars

\* a 500 answered by the fallback in silence, then a timeout that is logged
C8_Witness ==
    /\ pc = "rank_products"
    /\ amazonResp.kind = "http" /\ amazonResp.status = 500
    /\ state.amazon_products = fallback_amazon
    /\ googleResp.kind = "timeout"
    /\ state.google_products = fallback_google
    /\ log = <<[tag |-> "[Google Shopping Error]", e |-> "Timeout"]>>

(* C9: when the Search button fires with an empty query the graph is not   *)
(* invoked, no request is issued and a warning is shown; the graph is      *)
(* invoked only for a non-empty query.                                     *)
C9_EmptyQuery ==
    [][ /\ pc = "idle" =>
              IF user_input_text' = ""
                THEN pc' = "idle" /\ warning' /\ invocations' = 0 /\ requests' = 0
                ELSE pc' = "extract_product" /\ ~warning' /\ invocations' = 1
        /\ user_input_text' = "" => requests' = 0 /\ invocations' = 0
        /\ requests' > 0 => invocations' = 1 /\ user_input_text' # ""
      ]_vars

\* the script run of an empty click
C9_Witness ==
    /\ pc = "idle"
    /\ user_input_text = ""
    /\ warning
    /\ requests = 0
    /\ invocations = 0
    /\ log = <<>>

(* C10: at done both provider lists are non-empty, ranked_products has 2   *)
(* or 3 products, and it has 3 whenever a provider list is its fallback.   *)
C10_RankedSize ==
    pc = "done" =>
        /\ state.amazon_products # <<>>
        /\ state.google_products # <<>>
        /\ Len(state.ranked_products) \in {2, 3}
        /\ (state.amazon_products = fallback_amazon
              \/ state.google_products = fallback_google) => Len(state.ranked_products) = 3

\* one provider fell back, the other returned a single record
C10_Witness ==
    /\ pc = "done"
    /\ state.amazon_products = fallback_amazon
    /\ Len(state.google_products) = 1
    /\ Len(state.ranked_products) = 3

====
